---- MODULE Spec2Model ----
(***************************************************************************)
(* vbh-tracker: the two batch scripts of the price pipeline.               *)
(*                                                                         *)
(*   scripts/update-data.mjs        buildSeries + main: live price,        *)
(*                                  Wayback snapshots, supplementary file, *)
(*                                  FX conversion, de-dupe, sort, write.   *)
(*   scripts/fetch-marketplace.mjs  main (the variant with the Wayback     *)
(*                                  eBay fetch and the eBay refresh):      *)
(*                                  rewrites supplementary-points.json.    *)
(*                                                                         *)
(* Representation.                                                         *)
(*   - An ISO date string "YYYY-MM-DD" is the sequence of its 8 digits     *)
(*     (the two hyphens sit at fixed places and are left out); a Wayback   *)
(*     timestamp "YYYYMMDDhhmmss" is the sequence of its 14 digits.        *)
(*     String comparison (localeCompare, the default sort) is the          *)
(*     lexicographic order of the digit sequences.                         *)
(*   - A JS Date is a calendar record [y, m, d]; setUTCDate arithmetic is  *)
(*     real Gregorian arithmetic (month lengths, leap years).              *)
(*   - Money is an integer number of thousandths (225.999 is 225999), an   *)
(*     FX rate an integer number of hundredths (1.37 is 137, 1 is 100).    *)
(*     toFixed(2) is decimal rounding to the nearest hundredth, half up.   *)
(*   - A missing or falsy field of a JSON entry is "" (strings), 0         *)
(*     (amount) or <<>> (date, wayback).                                   *)
(***************************************************************************)
EXTENDS Integers, Sequences, FiniteSets, TLC

VARIABLES
    \* ---- update-data.mjs ----
    pc,             \* update-data's main: "start" before the first run, then the
                    \* outcome of the last run: "done", "again" (a second run
                    \* that wrote the file) or "failed"
    livePage,       \* what the live product page fetch answers (page or failure)
    wayback,        \* --wayback flag and what the archive answers
    fxDown,         \* the dates for which the rate service has no answer
    suppFile,       \* src/data/supplementary-points.json (both scripts)
    points,         \* buildSeries: points, before de-duplication
    supplementary,  \* buildSeries: supplementary, after spreadSupplementaryDates
    outFile,        \* src/data/price-series.json: its series
    fxLookups,      \* the requests the last run sent to the rate service, in
                    \* order: <<dateISO, from>>
    \* ---- fetch-marketplace.mjs ----
    fpc,            \* "start" | "done" : position of fetch-marketplace's main
    prevFile,       \* the supplementary file as the last run read it
    fetched,        \* the last run's parsed points: [grailed, ebay, waybackEbay]
    newPoints,      \* the last run's newPoints
    \* ---- one function of the scripts, applied on its own ----
    call,           \* the function and its arguments
    result          \* [done, value]: what the function returned

updateVars == <<pc, livePage, wayback, fxDown, points, supplementary, outFile, fxLookups>>
fetchVars  == <<fpc, prevFile, fetched, newPoints>>
callVars   == <<call, result>>
vars       == <<pc, livePage, wayback, fxDown, suppFile, points, supplementary,
                outFile, fxLookups, fpc, prevFile, fetched, newPoints, call, result>>

(***************************************************************************)
(* Bounds of the model.                                                    *)
(***************************************************************************)
\* snapshot rows of the archive index plus entries of the supplementary file
MaxInputs == 3
\* entries of the supplementary file when fetch-marketplace starts
MaxStore == 2
\* snapshots in the list that fetchEbayFromWayback samples
MaxSnapshots == 17
\* the cap maxSnapshots of the sample (main passes 15)
MaxCap == 15
\* capture rows of an index answer handed to a locator on its own
MaxRows == 3
\* price matches in a marketplace page handed to a parser on its own
MaxMatches == 3

(***************************************************************************)
(* Strings and dates.                                                      *)
(***************************************************************************)
\* String.prototype.toUpperCase on the currency codes that occur
toUpperCase(s) ==
    CASE s = "usd" -> "USD"
      [] s = "cad" -> "CAD"
      [] OTHER -> s

\* the digits of YYYY-MM-DD
Iso(y, m, d) ==
    << y \div 1000, (y \div 100) % 10, (y \div 10) % 10, y % 10,
       m \div 10, m % 10, d \div 10, d % 10 >>

\* new Date(iso + 'T12:00:00Z'): the calendar fields of an ISO date string
ParseIso(s) ==
    [ y |-> s[1] * 1000 + s[2] * 100 + s[3] * 10 + s[4],
      m |-> s[5] * 10 + s[6],
      d |-> s[7] * 10 + s[8] ]

IsLeap(y) == (y % 4 = 0 /\ y % 100 # 0) \/ y % 400 = 0

DaysInMonth(y, m) ==
    CASE m \in {4, 6, 9, 11} -> 30
      [] m = 2 -> IF IsLeap(y) THEN 29 ELSE 28
      [] OTHER -> 31

\* Date.prototype.setUTCDate(getUTCDate() - 1): the previous calendar day
PrevDay(t) ==
    IF t.d > 1 THEN [t EXCEPT !.d = t.d - 1]
    ELSE IF t.m > 1 THEN [y |-> t.y, m |-> t.m - 1, d |-> DaysInMonth(t.y, t.m - 1)]
    ELSE [y |-> t.y - 1, m |-> 12, d |-> 31]

\* d.setUTCDate(d.getUTCDate() - k) on a copy of t
RECURSIVE setUTCDateBack(_, _)
setUTCDateBack(t, k) == IF k <= 0 THEN t ELSE setUTCDateBack(PrevDay(t), k - 1)

\* d.toISOString().slice(0, 10)
toISODate(t) == Iso(t.y, t.m, t.d)

\* a.localeCompare(b) < 0 on digit strings: lexicographic order, decided at
\* the first place where the two differ (a proper prefix comes first)
StrLess(a, b) ==
    LET n == IF Len(a) < Len(b) THEN Len(a) ELSE Len(b)
        differ == { i \in 1..n : a[i] # b[i] }
    IN  IF differ = {} THEN Len(a) < Len(b)
        ELSE LET i == CHOOSE i \in differ : \A j \in differ : i <= j
             IN  a[i] < b[i]

\* Array.prototype.sort, which is stable: seq ordered by keys, keys[i] being
\* the sequence of values the comparator compares seq[i] by, in its order of
\* precedence; elements the comparator finds equal keep their order
StableSort(seq, keys) ==
    LET n == Len(seq)
        rank == << >> \o [ i \in 1..n |->
                    Cardinality({ j \in 1..n :
                        \/ StrLess(keys[j], keys[i])
                        \/ (keys[j] = keys[i] /\ j < i) }) + 1 ]
    IN  << >> \o [ k \in 1..n |-> seq[CHOOSE i \in 1..n : rank[i] = k] ]

\* isoDateFromWaybackTimestamp: ts.slice(0,4)-ts.slice(4,6)-ts.slice(6,8)
isoDateFromWaybackTimestamp(ts) == SubSeq(ts, 1, 8)

\* the run's `new Date().toISOString().slice(0, 10)`
todayISO == Iso(2024, 3, 1)
yesterdayISO == Iso(2024, 2, 29)

(***************************************************************************)
(* update-data.mjs: sources, the page parser, the rate service.            *)
(***************************************************************************)
ARCTERYX_SOURCE == [id |-> "arcteryx-ca", url |-> "arcteryx.com/ca/en/shop/bucket-hat-9477", currency |-> "CAD"]
SOURCE == ARCTERYX_SOURCE

\* `null` where a number is expected, and a regex that did not match
Null == -1

\* parsePriceFromHtml. A page is what its three regexes match:
\* [jsonLdCurrency, jsonLdPrice, textPrice], "" or Null when there is no match.
parsePriceFromHtml(html) ==
    [ current  |-> IF html.jsonLdPrice # Null THEN html.jsonLdPrice
                   ELSE IF html.textPrice # Null THEN html.textPrice
                   ELSE Null,
      regular  |-> Null,
      currency |-> toUpperCase(IF html.jsonLdCurrency # "" THEN html.jsonLdCurrency ELSE "CAD") ]

\* frankfurter.app's published rate to CAD for a date, in hundredths
FxTable(dateISO) ==
    IF dateISO = todayISO THEN 137 ELSE 100 + ParseIso(dateISO).d

\* faulty variant of fxRate: the run's own day is asked for, whatever date is passed
fxRateOfToday(dateISO, from) == IF todayISO \in fxDown THEN 0 ELSE FxTable(todayISO)

\* fxRate(dateISO, from, 'CAD'); 0 stands for the throw (HTTP error, or
\* `if (!rate) throw`)
fxRate(dateISO, from) == IF dateISO \in fxDown THEN 0 ELSE FxTable(dateISO)

\* Number(x.toFixed(2)) for x = amount * rate, amount in thousandths and rate
\* in hundredths: x is in units of 10^-5; the result is in thousandths
toFixed2(x) == ((x + 500) \div 1000) * 10

NoFx == [has |-> FALSE, pair |-> <<>>, rate |-> 0, date |-> <<>>]

\* the object literal pushed to `points` (lines 166-178, 226-239, 274-285);
\* rate is in hundredths, 100 when no lookup is made
PricePoint(date, kind, amount, currency, rate, sourceId, url, wb) ==
    [ date     |-> date,
      kind     |-> kind,
      amount   |-> amount,
      currency |-> currency,
      cad      |-> toFixed2(amount * rate),
      fx       |-> IF currency = "CAD" THEN NoFx
                   ELSE [has |-> TRUE, pair |-> <<currency, "CAD">>, rate |-> rate, date |-> date],
      sourceId |-> sourceId,
      url      |-> url,
      wayback  |-> wb ]

\* the sale and msrp points of one parsed page (lines 165-195, 225-257)
PagePoints(p, date, currency, rate, wb) ==
    (IF p.current # Null
        THEN << PricePoint(date, "sale", p.current, currency, rate, SOURCE.id, SOURCE.url, wb) >>
        ELSE << >>)
    \o
    (IF p.regular # Null
        THEN << PricePoint(date, "msrp", p.regular, currency, rate, SOURCE.id, SOURCE.url, wb) >>
        ELSE << >>)

\* buildSeries lines 153-195: the live page. ok = FALSE when fetchText or the
\* live point's fxRate throws (nothing catches either).
LivePoints ==
    IF ~livePage.ok THEN [ok |-> FALSE, points |-> << >>]
    ELSE LET parsed == parsePriceFromHtml(livePage)
             fxFrom == toUpperCase(parsed.currency)
             fxRateToCad == IF fxFrom = "CAD" THEN 100 ELSE fxRate(todayISO, fxFrom)
         IN  IF fxRateToCad = 0 THEN [ok |-> FALSE, points |-> << >>]
             ELSE [ok |-> TRUE,
                   points |-> PagePoints(parsed, todayISO, fxFrom, fxRateToCad, << >>)]

(***************************************************************************)
(* update-data.mjs: Wayback snapshots.                                     *)
(***************************************************************************)
\* getWaybackAllSnapshots: raw.slice(1), the timestamps, filter(Boolean),
\* sort(). raw is the index's answer: a header row, then one row per capture.
getWaybackAllSnapshots(raw) ==
    LET rows == IF raw = << >> THEN << >> ELSE Tail(raw)
        timestamps == << >> \o [i \in 1..Len(rows) |-> rows[i].ts]
        IsTs(ts) == ts # << >>
        kept == SelectSeq(timestamps, IsTs)
    IN  StableSort(kept, kept)

\* what the archive answers for web.archive.org/web/<ts>/<url>
ArchivePage(ts) ==
    LET i == CHOOSE i \in 1..Len(wayback.raw) : wayback.raw[i].ts = ts
    IN  wayback.raw[i].page

\* one turn of the snapshot loop (lines 205-258): the points it pushes
SnapshotPoints(ts) ==
    LET dateISO == isoDateFromWaybackTimestamp(ts)
        htmlSnap == ArchivePage(ts)
    IN  IF ~htmlSnap.ok THEN << >>
        ELSE LET p == parsePriceFromHtml(htmlSnap)
                 snapFrom == toUpperCase(p.currency)
                 rate == IF snapFrom = "CAD" THEN 100 ELSE fxRate(dateISO, snapFrom)
             IN  IF p.current = Null /\ p.regular = Null THEN << >>
                 ELSE IF rate = 0 THEN << >>
                 ELSE PagePoints(p, dateISO, snapFrom, rate, ts)

\* faulty variant of SnapshotLoop: a failed page fetch ends the loop
RECURSIVE SnapshotLoopBreaks(_)
SnapshotLoopBreaks(snapshots) ==
    IF snapshots = << >> THEN << >>
    ELSE IF ~ArchivePage(Head(snapshots)).ok THEN << >>
    ELSE SnapshotPoints(Head(snapshots)) \o SnapshotLoopBreaks(Tail(snapshots))

RECURSIVE SnapshotLoop(_)
SnapshotLoop(snapshots) ==
    IF snapshots = << >> THEN << >>
    ELSE SnapshotPoints(Head(snapshots)) \o SnapshotLoop(Tail(snapshots))

\* buildSeries lines 197-259
WaybackPoints ==
    IF ~wayback.include THEN << >>
    ELSE LET snapshots == IF wayback.cdxOk THEN getWaybackAllSnapshots(wayback.raw) ELSE << >>
         IN  SnapshotLoop(snapshots)

(***************************************************************************)
(* update-data.mjs: the supplementary file.                                *)
(***************************************************************************)
\* loadSupplementaryPoints: the file's array ([] when the file is missing)
loadSupplementaryPoints == suppFile

\* what (a.price?.amount ?? 0) - (b.price?.amount ?? 0) orders by
AmountKey(pt) == << pt.amount >>

\* what a.date.localeCompare(b.date) || (amount difference) orders by: the
\* date, then the amount. An entry without a date is compared as the string
\* "undefined", which is greater than every digit string (10 stands for "u").
DateAmountKey(pt) == (IF pt.date = << >> THEN << 10 >> ELSE pt.date) \o << pt.amount >>

\* the Map key `${pt.sourceId}|${pt.date}`
GroupKey(pt) == <<pt.sourceId, pt.date>>

\* line 145: toISOString throws a RangeError on the Invalid Date that a group
\* of several entries without a date is spread from
SpreadThrows(pts) ==
    \E i, j \in 1..Len(pts) :
        i # j /\ pts[i].date = << >> /\ GroupKey(pts[i]) = GroupKey(pts[j])

\* line 149: a.date.localeCompare throws a TypeError when the comparator is
\* called with an entry without a date as its first argument; which entries
\* the sort passes first is up to the engine
SortMayThrow(pts) ==
    Len(pts) >= 2 /\ \E i \in 1..Len(pts) : pts[i].date = << >>

\* faulty variant of SpreadGroup: the group is not sorted by amount before re-dating
SpreadGroupUnsorted(group) ==
    IF Len(group) <= 1 THEN group
    ELSE LET base == ParseIso(group[1].date)
         IN  << >> \o [ i \in 1..Len(group) |->
                 [ group[i] EXCEPT
                     !.date = toISODate(setUTCDateBack(base, Len(group) - i)) ] ]

\* lines 135-147: one group of the Map
SpreadGroup(group) ==
    IF Len(group) <= 1 THEN group
    ELSE LET baseDate == group[1].date
             base == ParseIso(baseDate)
             sorted == StableSort(group, << >> \o [ i \in 1..Len(group) |-> AmountKey(group[i]) ])
         IN  << >> \o [ i \in 1..Len(group) |->
                 [ sorted[i] EXCEPT
                     !.date = toISODate(setUTCDateBack(base, Len(group) - i)) ] ]

\* lines 127-148: the groups in the Map's insertion order (the order in which
\* each key first occurs), each spread, concatenated
RECURSIVE SpreadFrom(_, _)
SpreadFrom(pts, i) ==
    IF i > Len(pts) THEN << >>
    ELSE LET first == \A j \in 1..(i - 1) : GroupKey(pts[j]) # GroupKey(pts[i])
             InGroup(pt) == GroupKey(pt) = GroupKey(pts[i])
         IN  (IF first THEN SpreadGroup(SelectSeq(pts, InGroup)) ELSE << >>)
             \o SpreadFrom(pts, i + 1)

\* spreadSupplementaryDates
spreadSupplementaryDates(pts) ==
    LET out == SpreadFrom(pts, 1)
    IN  StableSort(out, << >> \o [ i \in 1..Len(out) |-> DateAmountKey(out[i]) ])

\* line 264: the entry is skipped when a required field is missing or falsy
Malformed(pt) ==
    pt.date = << >> \/ pt.kind = "" \/ pt.amount = 0 \/ pt.sourceId = "" \/ pt.url = ""

\* one turn of the loop of lines 263-286: the points it pushes
SupplementaryPoint(pt) ==
    IF Malformed(pt) THEN << >>
    ELSE LET currency == toUpperCase(IF pt.currency # "" THEN pt.currency ELSE "USD")
             rate == IF currency # "CAD" THEN fxRate(pt.date, currency) ELSE 100
         IN  IF rate = 0 THEN << >>
             ELSE << PricePoint(pt.date, IF pt.kind = "msrp" THEN "msrp" ELSE "sale",
                                pt.amount, currency, rate, pt.sourceId, pt.url, pt.wayback) >>

RECURSIVE SupplementaryLoop(_)
SupplementaryLoop(supp) ==
    IF supp = << >> THEN << >>
    ELSE SupplementaryPoint(Head(supp)) \o SupplementaryLoop(Tail(supp))

(***************************************************************************)
(* update-data.mjs: the requests fxRate sends. fxRate (lines 87-94) fetches *)
(* the rate service's url on every call; nothing keeps an earlier answer.  *)
(***************************************************************************)
\* line 161: the live point's rate, asked for unless the page is in CAD
LiveLookups ==
    IF ~livePage.ok THEN << >>
    ELSE LET fxFrom == toUpperCase(parsePriceFromHtml(livePage).currency)
         IN  IF fxFrom = "CAD" THEN << >> ELSE << << todayISO, fxFrom >> >>

\* line 218: one turn of the snapshot loop asks for the rate of the capture's
\* date when the page was fetched, has a price and is not in CAD
SnapshotLookups(ts) ==
    LET dateISO == isoDateFromWaybackTimestamp(ts)
        htmlSnap == ArchivePage(ts)
    IN  IF ~htmlSnap.ok THEN << >>
        ELSE LET p == parsePriceFromHtml(htmlSnap)
                 snapFrom == toUpperCase(p.currency)
             IN  IF p.current = Null /\ p.regular = Null THEN << >>
                 ELSE IF snapFrom = "CAD" THEN << >>
                 ELSE << << dateISO, snapFrom >> >>

RECURSIVE SnapshotLoopLookups(_)
SnapshotLoopLookups(snapshots) ==
    IF snapshots = << >> THEN << >>
    ELSE SnapshotLookups(Head(snapshots)) \o SnapshotLoopLookups(Tail(snapshots))

WaybackLookups ==
    IF ~wayback.include THEN << >>
    ELSE LET snapshots == IF wayback.cdxOk THEN getWaybackAllSnapshots(wayback.raw) ELSE << >>
         IN  SnapshotLoopLookups(snapshots)

\* line 269: one turn of the supplementary loop
RECURSIVE SupplementaryLookups(_)
SupplementaryLookups(supp) ==
    IF supp = << >> THEN << >>
    ELSE LET pt == Head(supp)
             currency == toUpperCase(IF pt.currency # "" THEN pt.currency ELSE "USD")
         IN  (IF Malformed(pt) \/ currency = "CAD" THEN << >> ELSE << << pt.date, currency >> >>)
             \o SupplementaryLookups(Tail(supp))

\* the requests of a run of buildSeries that returns
FxLookups ==
    LiveLookups \o WaybackLookups
        \o SupplementaryLookups(spreadSupplementaryDates(loadSupplementaryPoints))

\* the requests of a run of buildSeries that throws: at the live fetch, at the
\* live point's rate, or in spreadSupplementaryDates after the snapshot loop
FxLookupsUntilThrow ==
    IF ~LivePoints.ok THEN LiveLookups ELSE LiveLookups \o WaybackLookups

(***************************************************************************)
(* update-data.mjs: de-dupe, sort, buildSeries, main.                      *)
(***************************************************************************)
\* line 292: `${date}|${kind}|${amount}|${currency}|${sourceId}`
DedupKey(pt) == <<pt.date, pt.kind, pt.amount, pt.currency, pt.sourceId>>

\* faulty variant of Dedupe: of the points with one key the last is kept
DedupeKeepsLast(pts, seen) ==
    LET n == Len(pts)
        kept == { i \in 1..n : \A j \in (i + 1)..n : DedupKey(pts[j]) # DedupKey(pts[i]) }
    IN  << >> \o [ k \in 1..Cardinality(kept) |->
                     pts[CHOOSE i \in kept : Cardinality({ j \in kept : j <= i }) = k] ]

\* faulty variant of Dedupe: the `seen` test is dropped, every point is kept
DedupeKeepsAll(pts, seen) == pts

\* lines 289-296
RECURSIVE Dedupe(_, _)
Dedupe(pts, seen) ==
    IF pts = << >> THEN << >>
    ELSE LET k == DedupKey(Head(pts))
         IN  IF k \in seen THEN Dedupe(Tail(pts), seen)
             ELSE << Head(pts) >> \o Dedupe(Tail(pts), seen \cup {k})

\* what a.date.localeCompare(b.date) orders by
DateKey(pt) == pt.date

\* faulty variant of SortSeries: the series is emitted in collection order
SortSeriesSkipped(deduped) == deduped

\* line 298
SortSeries(deduped) ==
    StableSort(deduped, << >> \o [ i \in 1..Len(deduped) |-> DateKey(deduped[i]) ])

\* buildSeries throws: the live fetch or the live point's rate lookup failed,
\* or the spreading of the supplementary entries threw
buildSeriesThrows == ~LivePoints.ok \/ SpreadThrows(loadSupplementaryPoints)

\* buildSeries throws or not, as the engine's sort decides
buildSeriesMayThrow == ~buildSeriesThrows /\ SortMayThrow(loadSupplementaryPoints)

\* buildSeries: ok = FALSE when it throws
buildSeries ==
    LET live == LivePoints
        supp == spreadSupplementaryDates(loadSupplementaryPoints)
        pts  == live.points \o WaybackPoints \o SupplementaryLoop(supp)
    IN  IF buildSeriesThrows
           THEN [ok |-> FALSE, supplementary |-> << >>, points |-> << >>, series |-> << >>]
           ELSE [ok |-> TRUE, supplementary |-> supp, points |-> pts,
                 series |-> SortSeries(Dedupe(pts, {}))]

(***************************************************************************)
(* The inputs of one update-data run.                                      *)
(***************************************************************************)
Page(currency, price, text) ==
    [ok |-> TRUE, jsonLdCurrency |-> currency, jsonLdPrice |-> price, textPrice |-> text]

\* the fetch failed (network error or non-2xx status)
FetchFailed == [ok |-> FALSE, jsonLdCurrency |-> "", jsonLdPrice |-> Null, textPrice |-> Null]

LivePages ==
    { FetchFailed,
      Page("", Null, Null),
      Page("", Null, 225000),
      Page("CAD", 225999, 225000),
      Page("usd", 225000, Null) }

SnapshotPages ==
    { FetchFailed, Page("CAD", 225999, 225000), Page("usd", 225000, Null) }

\* YYYYMMDDhhmmss
Timestamp(y, m, d, h) == Iso(y, m, d) \o << h \div 10, h % 10, 0, 0, 0, 0 >>

Timestamps == { Timestamp(2024, 2, 29, 8), Timestamp(2024, 3, 1, 8) }

CdxHeader == [ts |-> << >>, page |-> FetchFailed]

SeqsUpTo(S, n) == UNION { [1..k -> S] : k \in 0..n }

Distinct(seq) == \A i, j \in 1..Len(seq) : i # j => seq[i] # seq[j]

CdxRows(n) ==
    { rows \in SeqsUpTo([ts : Timestamps, page : SnapshotPages], n) :
        Distinct([i \in 1..Len(rows) |-> rows[i].ts]) }

WaybackAnswers(n) ==
    { [include |-> FALSE, cdxOk |-> TRUE, raw |-> << CdxHeader >>],
      [include |-> TRUE, cdxOk |-> FALSE, raw |-> << >>] }
    \cup { [include |-> TRUE, cdxOk |-> TRUE, raw |-> << CdxHeader >> \o rows] :
             rows \in CdxRows(n) }

FxOutages == { {}, {yesterdayISO}, {todayISO} }

Entry(date, amount, currency, sourceId, url) ==
    [ date |-> date, kind |-> "sale", amount |-> amount, currency |-> currency,
      sourceId |-> sourceId, url |-> url, wayback |-> << >> ]

\* entries of the supplementary file: marketplace listings and manual points
SuppEntries ==
    { Entry(d, a, "USD", "ebay", "ebay.com/sch") : d \in {yesterdayISO, todayISO}, a \in {100000, 225999} }
    \cup
    { Entry(todayISO, a, "CAD", SOURCE.id, SOURCE.url) : a \in {100000, 225999} }

\* src/data/price-series.json as an earlier run left it
PreviousSeries ==
    << PricePoint(Iso(2024, 2, 28), "sale", 200000, "CAD", 100, SOURCE.id, SOURCE.url, << >>) >>

NoFetched == [grailed |-> << >>, ebay |-> << >>, waybackEbay |-> << >>]

\* no function is applied on its own
NoCall == [fn |-> ""]

NoResult == [done |-> FALSE, value |-> << >>]

Init ==
    /\ pc = "start"
    /\ livePage \in LivePages
    /\ fxDown \in FxOutages
    /\ suppFile \in SeqsUpTo(SuppEntries, MaxInputs)
    /\ wayback \in WaybackAnswers(MaxInputs - Len(suppFile))
    /\ points = << >>
    /\ fxLookups = << >>
    /\ supplementary = << >>
    /\ outFile = PreviousSeries
    /\ fpc = "idle"
    /\ prevFile = << >>
    /\ fetched = NoFetched
    /\ newPoints = << >>
    /\ call = NoCall
    /\ result = NoResult

\* faulty variant of UpdateData: the series is appended to the file's
UpdateDataAppends ==
    /\ pc \in {"start", "done"}
    /\ LET data == buildSeries
       IN  /\ data.ok
           /\ points' = data.points
           /\ supplementary' = data.supplementary
           /\ outFile' = outFile \o data.series
    /\ pc' = IF pc = "start" THEN "done" ELSE "again"
    /\ fxLookups' = FxLookups
    /\ UNCHANGED <<livePage, wayback, fxDown, suppFile, fetchVars, callVars>>

\* main of update-data.mjs, a first run or a second one on the same day with
\* the same upstream answers: buildSeries returns and the file is written
UpdateData ==
    /\ pc \in {"start", "done"}
    /\ LET data == buildSeries
       IN  /\ data.ok
           /\ points' = data.points
           /\ supplementary' = data.supplementary
           /\ outFile' = data.series
    /\ pc' = IF pc = "start" THEN "done" ELSE "again"
    /\ fxLookups' = FxLookups
    /\ UNCHANGED <<livePage, wayback, fxDown, suppFile, fetchVars, callVars>>

\* faulty variant of UpdateDataFails: the file is emptied before the throw
UpdateDataFailsTruncates ==
    /\ pc \in {"start", "done"}
    /\ buildSeriesThrows \/ buildSeriesMayThrow
    /\ pc' = "failed"
    /\ outFile' = << >>
    /\ fxLookups' = FxLookupsUntilThrow
    /\ UNCHANGED <<livePage, wayback, fxDown, suppFile, points, supplementary, fetchVars, callVars>>

\* main of update-data.mjs: buildSeries throws, main().catch exits with 1
UpdateDataFails ==
    /\ pc \in {"start", "done"}
    /\ buildSeriesThrows \/ buildSeriesMayThrow
    /\ pc' = "failed"
    /\ fxLookups' = FxLookupsUntilThrow
    /\ UNCHANGED <<livePage, wayback, fxDown, suppFile, points, supplementary, outFile, fetchVars, callVars>>

Next == UpdateData \/ UpdateDataFails

Spec == Init /\ [][Next]_vars

(***************************************************************************)
(* Properties of update-data.mjs (specification Spec).                     *)
(***************************************************************************)
Done == pc = "done"

\* the de-duplication tuple of a series point
Tuple(pt) == <<pt.date, pt.kind, pt.amount, pt.currency, pt.sourceId>>

\* the tuple of an entry of the supplementary file, as the file gives it
EntryTuple(e) ==
    << e.date, IF e.kind = "msrp" THEN "msrp" ELSE "sale", e.amount,
       toUpperCase(IF e.currency # "" THEN e.currency ELSE "USD"), e.sourceId >>

\* the tuples of the run's inputs: primary, snapshot-derived, supplementary
PrimaryAndSnapshotPoints == LivePoints.points \o WaybackPoints

InputTuples ==
    << >> \o [i \in 1..Len(PrimaryAndSnapshotPoints) |-> Tuple(PrimaryAndSnapshotPoints[i])]
          \o [i \in 1..Len(suppFile) |-> EntryTuple(suppFile[i])]

CountInSeries(t) == Cardinality({ i \in 1..Len(outFile) : Tuple(outFile[i]) = t })

\* the number of days from 0000-03-01 to an ISO date (counted, not stepped)
DayNumber(iso) ==
    LET t == ParseIso(iso)
        y == IF t.m <= 2 THEN t.y - 1 ELSE t.y
        mm == IF t.m <= 2 THEN t.m + 9 ELSE t.m - 3
    IN  365 * y + y \div 4 - y \div 100 + y \div 400 + (153 * mm + 2) \div 5 + t.d - 1

\* C1: the series buildSeries returns never holds two points with the same
\* (date, kind, price.amount, price.currency, sourceId) tuple.
C1_NoDuplicateTuples ==
    Done => \A i, j \in 1..Len(outFile) : i # j => Tuple(outFile[i]) # Tuple(outFile[j])

\* C1 witness: a finished run whose point list held a duplicate that the
\* de-duplication dropped.
C1_Witness ==
    /\ Done
    /\ Len(outFile) < Len(points)
    /\ Len(outFile) >= 2

\* C2 (as claimed): when two inputs of a run (primary, snapshot-derived or
\* supplementary, two identical file entries included) have the same tuple,
\* the series holds exactly one point for them: exactly one point with that
\* tuple, and no further point standing for the second input, so the series
\* is no longer than the number of distinct input tuples. Stated for runs
\* in which every rate lookup answers.
C2_DuplicateInputsYieldOne ==
    (Done /\ fxDown = {}) =>
        \A i, j \in 1..Len(InputTuples) :
            (i # j /\ InputTuples[i] = InputTuples[j]) =>
                /\ CountInSeries(InputTuples[i]) = 1
                /\ Len(outFile) <= Cardinality({ InputTuples[k] : k \in 1..Len(InputTuples) })

\* C3: the emitted series is sorted ascending by date: no point's ISO date is
\* lexicographically greater than its successor's.
C3_SortedByDate ==
    Done => \A i \in 1..(Len(outFile) - 1) : ~StrLess(outFile[i + 1].date, outFile[i].date)

\* C3 witness: a finished run whose points were collected out of date order
\* and all survived de-duplication.
C3_Witness ==
    /\ Done
    /\ Len(outFile) = Len(points)
    /\ \E i, j \in 1..Len(points) : i < j /\ StrLess(points[j].date, points[i].date)

\* C4 (as claimed): every series point whose native currency is CAD has
\* priceCad.amount equal to price.amount exactly, and no fx metadata.
C4_CurrencyIdentity ==
    Done => \A i \in 1..Len(outFile) :
                outFile[i].currency = "CAD" =>
                    (outFile[i].cad = outFile[i].amount /\ ~outFile[i].fx.has)

\* C5: every series point whose native currency is not CAD has priceCad.amount
\* equal to price.amount times the rate published for the point's own date,
\* rounded to the nearest hundredth, and fx metadata recording the pair
\* <currency>/CAD, that rate and that date.
C5_ConvertedAtOwnDate ==
    Done => \A i \in 1..Len(outFile) :
                LET pt == outFile[i]
                    rate == FxTable(pt.date)
                    err == pt.amount * rate - pt.cad * 100
                IN  pt.currency # "CAD" =>
                        /\ pt.cad % 10 = 0
                        /\ -500 <= err /\ err < 500
                        /\ pt.fx = [has |-> TRUE, pair |-> <<pt.currency, "CAD">>,
                                    rate |-> rate, date |-> pt.date]

\* C5 witness: the end-to-end scenario, 225.00 USD at 1.37 on the run's day is
\* 308.25 CAD, next to a USD point of another day converted at that day's rate.
C5_Witness ==
    /\ Done
    /\ \E i \in 1..Len(outFile) :
          /\ outFile[i].currency = "USD" /\ outFile[i].amount = 225000
          /\ outFile[i].date = todayISO
          /\ outFile[i].cad = 308250
          /\ outFile[i].fx.rate = 137
    /\ \E i \in 1..Len(outFile) :
          /\ outFile[i].currency = "USD" /\ outFile[i].date # todayISO
          /\ outFile[i].amount = 225999

\* the places in the supplementary file of the group of entry i: the entries
\* with its (sourceId, date)
GroupOf(i) == { j \in 1..Len(suppFile) : GroupKey(suppFile[j]) = GroupKey(suppFile[i]) }

\* C6: a group of N > 1 supplementary entries sharing (sourceId, date D) is
\* re-dated by spreadSupplementaryDates to the N consecutive calendar days
\* D-(N-1) .. D, one member per day and nothing but the date changed, the
\* amount non-decreasing as the day increases, a member with the largest
\* amount keeping D.
C6_GroupSpreadOverDays ==
    Done => \A i0 \in 1..Len(suppFile) :
        LET G == GroupOf(i0)
            N == Cardinality(G)
            D == DayNumber(suppFile[i0].date)
            Day(k) == DayNumber(supplementary[k].date)
        IN  N > 1 =>
              \E f \in [G -> 1..Len(supplementary)] :
                  /\ \A i, j \in G : i # j => f[i] # f[j]
                  /\ \A i \in G : [supplementary[f[i]] EXCEPT !.date = suppFile[i].date] = suppFile[i]
                  /\ { Day(f[i]) : i \in G } = (D - (N - 1))..D
                  /\ \A i, j \in G : Day(f[i]) < Day(f[j]) => suppFile[i].amount <= suppFile[j].amount
                  /\ \E i \in G : /\ \A j \in G : suppFile[j].amount <= suppFile[i].amount
                                  /\ supplementary[f[i]].date = suppFile[i].date

\* C6 witness: a finished run whose file holds three entries of one source on
\* 2024-03-01 with two different amounts, listed with the larger amount first:
\* the spread reaches back over the leap day to 2024-02-28.
C6_Witness ==
    /\ Done
    /\ Len(suppFile) = 3
    /\ \A i \in 1..3 : suppFile[i].date = todayISO /\ suppFile[i].sourceId = "ebay"
    /\ suppFile[1].amount > suppFile[2].amount
    /\ supplementary[1].date = Iso(2024, 2, 28)
    /\ supplementary[3].date = todayISO

\* C7 (as claimed): when the supplementary entries are well-formed and
\* pairwise distinct in (date, kind, amount, currency, sourceId), every rate
\* lookup answers and no primary or snapshot point uses their sourceIds, the
\* series holds exactly as many points with those sourceIds as the file has
\* entries.
C7_SpreadNeverCollapses ==
    LET ids == { suppFile[i].sourceId : i \in 1..Len(suppFile) }
    IN  ( /\ Done
          /\ fxDown = {}
          /\ \A i \in 1..Len(suppFile) : ~Malformed(suppFile[i])
          /\ \A i, j \in 1..Len(suppFile) : i # j => EntryTuple(suppFile[i]) # EntryTuple(suppFile[j])
          /\ \A k \in 1..Len(PrimaryAndSnapshotPoints) : PrimaryAndSnapshotPoints[k].sourceId \notin ids )
        => Cardinality({ k \in 1..Len(outFile) : outFile[k].sourceId \in ids }) = Len(suppFile)


\* a run of update-data wrote the file
Wrote == pc \in {"done", "again"}

\* C14: when the fetch of the live page fails, the run ends failed and the
\* output file keeps its previous contents
C14_LiveFailureLeavesFile ==
    [][ ~livePage.ok => (pc' = "failed" /\ outFile' = outFile) ]_vars

\* the live fetch failed, the run failed, the file is as the earlier run left it
C14_Witness ==
    /\ pc = "failed"
    /\ ~livePage.ok
    /\ outFile = PreviousSeries
    /\ Len(outFile) > 0

\* the tuples of the series
SeriesTuples == { Tuple(outFile[i]) : i \in 1..Len(outFile) }

\* the tuple of the point a snapshot's page gives
SnapshotTuple(ts) ==
    LET p == parsePriceFromHtml(ArchivePage(ts))
    IN  << isoDateFromWaybackTimestamp(ts), "sale", p.current, toUpperCase(p.currency), SOURCE.id >>

\* C15 (as claimed): when the live page fetch succeeds, no failure of a rate
\* lookup, the live point's included, makes the run fail; the run writes the
\* file and leaves out only points whose own rate lookup failed
C15_FxFailureNeverAborts ==
    /\ livePage.ok => pc # "failed"
    /\ Wrote =>
          /\ \A i \in 1..Len(supplementary) :
                 LET e == supplementary[i]
                 IN  (~Malformed(e) /\ (EntryTuple(e)[4] = "CAD" \/ e.date \notin fxDown))
                         => EntryTuple(e) \in SeriesTuples
          /\ (wayback.include /\ wayback.cdxOk) =>
                 \A k \in 2..Len(wayback.raw) :
                     LET ts == wayback.raw[k].ts
                         page == wayback.raw[k].page
                     IN  (/\ page.ok
                          /\ parsePriceFromHtml(page).current # Null
                          /\ \/ SnapshotTuple(ts)[4] = "CAD"
                             \/ isoDateFromWaybackTimestamp(ts) \notin fxDown)
                             => SnapshotTuple(ts) \in SeriesTuples

Collected == LivePoints.points \o WaybackPoints \o SupplementaryLoop(supplementary)

\* C20: of the points that share a dedup key, the series holds the first in
\* the order live, snapshot-derived, supplementary
C20_FirstOccurrenceWins ==
    Done =>
        LET all == Collected
        IN  \A i \in 1..Len(outFile) :
                LET same == { j \in 1..Len(all) : DedupKey(all[j]) = DedupKey(outFile[i]) }
                    first == CHOOSE j \in same : \A k \in same : j <= k
                IN  same # {} /\ outFile[i] = all[first]

\* a live point and a snapshot point of the same day have the same key; the
\* series holds the live point, which has no wayback field
C20_Witness ==
    /\ Done
    /\ LivePoints.points # << >>
    /\ \E j \in 1..Len(WaybackPoints) :
           /\ DedupKey(WaybackPoints[j]) = DedupKey(LivePoints.points[1])
           /\ WaybackPoints[j].wayback # << >>
    /\ \E i \in 1..Len(outFile) :
           /\ outFile[i] = LivePoints.points[1]
           /\ outFile[i].wayback = << >>
    /\ \A i \in 1..Len(outFile) :
           DedupKey(outFile[i]) = DedupKey(LivePoints.points[1]) => outFile[i].wayback = << >>

\* C21 (as claimed): points of the written series that share a date stand in
\* ascending order of amount, whichever list they came from
C21_TiesAscendingByAmount ==
    Wrote =>
        \A i, j \in 1..Len(outFile) :
            (i < j /\ outFile[i].date = outFile[j].date) =>
                outFile[i].amount <= outFile[j].amount

\* the captures the index lists, and those whose page fetch fails
Captures == IF wayback.include /\ wayback.cdxOk THEN 2..Len(wayback.raw) ELSE {}

FailedCaptures == { k \in Captures : ~wayback.raw[k].page.ok }

\* the capture's page is fetched, has a price, and the rate it needs is answered
Priced(k) ==
    LET ts == wayback.raw[k].ts
        page == wayback.raw[k].page
    IN  /\ page.ok
        /\ parsePriceFromHtml(page).current # Null
        /\ \/ SnapshotTuple(ts)[4] = "CAD"
           \/ isoDateFromWaybackTimestamp(ts) \notin fxDown

\* C22: in historical mode a snapshot whose page fetch fails does not end the
\* run, and every other snapshot that is fetched, priced and converted has
\* its point in the written series
C22_FailedSnapshotDropsOnlyItself ==
    (FailedCaptures # {} /\ pc # "start") =>
        /\ (livePage.ok /\ todayISO \notin fxDown) => Wrote
        /\ Wrote =>
              \A k \in Captures \ FailedCaptures :
                  Priced(k) => SnapshotTuple(wayback.raw[k].ts) \in SeriesTuples

\* the fetch of the older snapshot failed; the newer one, met later in the
\* loop, has its snapshot-derived point in the series
C22_Witness ==
    /\ Wrote
    /\ \E k \in FailedCaptures, l \in Captures \ FailedCaptures :
           /\ StrLess(wayback.raw[k].ts, wayback.raw[l].ts)
           /\ Priced(l)
           /\ \E i \in 1..Len(outFile) :
                  /\ outFile[i].wayback = wayback.raw[l].ts
                  /\ Tuple(outFile[i]) = SnapshotTuple(wayback.raw[l].ts)

\* C24 (as claimed): a run of buildSeries sends the rate service at most one
\* request for each (date, currency pair)
C24_OneLookupPerDateAndPair ==
    pc # "start" => Distinct(fxLookups)

(***************************************************************************)
(* update-data.mjs on supplementary files with incomplete entries          *)
(* (specification SpecSupp).                                               *)
(***************************************************************************)
\* a complete entry, and the entry with each one of its fields left out
IncompleteEntries ==
    LET e == Entry(todayISO, 100000, "USD", "ebay", "ebay.com/sch")
    IN  { [e EXCEPT !.date = << >>], [e EXCEPT !.kind = ""], [e EXCEPT !.amount = 0],
          [e EXCEPT !.currency = ""], [e EXCEPT !.sourceId = ""], [e EXCEPT !.url = ""] }

CompleteEntries ==
    { Entry(todayISO, a, "USD", "ebay", "ebay.com/sch") : a \in {100000, 120000} }

InitSupp ==
    /\ pc = "start"
    /\ livePage \in { FetchFailed, Page("", Null, 225000) }
    /\ fxDown = {}
    /\ suppFile \in SeqsUpTo(IncompleteEntries \cup CompleteEntries, MaxInputs)
    /\ wayback = [include |-> FALSE, cdxOk |-> TRUE, raw |-> << CdxHeader >>]
    /\ points = << >>
    /\ fxLookups = << >>
    /\ supplementary = << >>
    /\ outFile = PreviousSeries
    /\ fpc = "idle"
    /\ prevFile = << >>
    /\ fetched = NoFetched
    /\ newPoints = << >>
    /\ call = NoCall
    /\ result = NoResult

SpecSupp == InitSupp /\ [][Next]_vars

\* the entry has all six required fields
Complete(e) ==
    /\ e.date # << >>
    /\ e.kind # ""
    /\ e.amount # 0
    /\ e.currency # ""
    /\ e.sourceId # ""
    /\ e.url # ""

SeriesFor(entries) ==
    SortSeries(Dedupe(LivePoints.points \o WaybackPoints
                        \o SupplementaryLoop(spreadSupplementaryDates(entries)), {}))

\* C23 (as claimed): entries of the supplementary file that lack date,
\* price.amount, kind, sourceId or url do not make the run fail, and the
\* series written is the one the file without those entries gives (the
\* well-formed entries' points, with the dates the spreading assigns them)
C23_MalformedEntryChangesNothing ==
    (pc # "start" /\ LivePoints.ok) =>
        /\ Wrote
        /\ LET WellFormed(e) == ~Malformed(e)
           IN  outFile = SeriesFor(SelectSeq(suppFile, WellFormed))

(***************************************************************************)
(* The updater for the C'H'C'M' shop page (the second script of            *)
(* src/unnamed/part_002): live price, monthly Wayback snapshots, every     *)
(* price converted from USD (specification SpecChcm).                      *)
(***************************************************************************)
CHCM_SOURCE == [id |-> "chcm", url |-> "chcmshop.com/products/veilance-bucket-hat-carmine", currency |-> "USD"]

\* a shop page is what the three regexes match: og:price:amount,
\* og:price:currency and the amount after "Regular price"
ChcmPage(ogAmount, ogCurrency, regular) ==
    [ok |-> TRUE, ogAmount |-> ogAmount, ogCurrency |-> ogCurrency, regular |-> regular]

ChcmFetchFailed == [ok |-> FALSE, ogAmount |-> Null, ogCurrency |-> "", regular |-> Null]

\* parsePriceFromHtml of the shop updater
parsePriceFromHtmlChcm(html) ==
    [ current  |-> html.ogAmount,
      regular  |-> html.regular,
      currency |-> IF html.ogCurrency # "" THEN html.ogCurrency ELSE "USD" ]

\* the object literals pushed to points (lines 347-366, 389-411): every price
\* is converted with the USD rate
ChcmPoints(p, date, rate, wb) ==
    LET Point(kind, amount) ==
            [ date |-> date, kind |-> kind, amount |-> amount, currency |-> p.currency,
              cad |-> toFixed2(amount * rate),
              fx |-> [has |-> TRUE, pair |-> << "USD", "CAD" >>, rate |-> rate, date |-> date],
              sourceId |-> CHCM_SOURCE.id, url |-> CHCM_SOURCE.url, wayback |-> wb ]
    IN  (IF p.current # Null THEN << Point("sale", p.current) >> ELSE << >>)
        \o (IF p.regular # Null THEN << Point("msrp", p.regular) >> ELSE << >>)

\* lines 324-329: byMonth keeps the first timestamp met for each YYYYMM
RECURSIVE ByMonth(_, _)
ByMonth(rows, months) ==
    IF rows = << >> THEN << >>
    ELSE LET timestamp == Head(rows).ts
             yyyymm == SubSeq(timestamp, 1, 6)
         IN  IF yyyymm \in months THEN ByMonth(Tail(rows), months)
             ELSE << timestamp >> \o ByMonth(Tail(rows), months \cup {yyyymm})

\* getWaybackMonthlySnapshots, given the index's answer: the first snapshot of
\* each month, the months sorted, the last maxMonths of them
getWaybackMonthlySnapshots(raw, maxMonths) ==
    LET rows == IF raw = << >> THEN << >> ELSE Tail(raw)
        firsts == ByMonth(rows, {})
        months == StableSort(firsts, << >> \o [ i \in 1..Len(firsts) |-> SubSeq(firsts[i], 1, 6) ])
        from == IF Len(months) - maxMonths > 0 THEN Len(months) - maxMonths ELSE 0
    IN  SubSeq(months, from + 1, Len(months))

\* one turn of the snapshot loop (lines 372-412)
ChcmSnapshotPoints(ts) ==
    LET dateISO == isoDateFromWaybackTimestamp(ts)
        htmlSnap == ArchivePage(ts)
    IN  IF ~htmlSnap.ok THEN << >>
        ELSE LET p == parsePriceFromHtmlChcm(htmlSnap)
                 rate == fxRate(dateISO, "USD")
             IN  IF p.current = Null /\ p.regular = Null THEN << >>
                 ELSE IF rate = 0 THEN << >>
                 ELSE ChcmPoints(p, dateISO, rate, ts)

\* the requests of the shop updater's buildSeries: today's rate first (line
\* 340), then one for each snapshot that was fetched and has a price (385)
RECURSIVE ChcmSnapshotLookups(_)
ChcmSnapshotLookups(snapshots) ==
    IF snapshots = << >> THEN << >>
    ELSE LET ts == Head(snapshots)
             htmlSnap == ArchivePage(ts)
             p == parsePriceFromHtmlChcm(htmlSnap)
         IN  (IF htmlSnap.ok /\ ~(p.current = Null /\ p.regular = Null)
                 THEN << << isoDateFromWaybackTimestamp(ts), "USD" >> >> ELSE << >>)
             \o ChcmSnapshotLookups(Tail(snapshots))

FxLookupsChcm ==
    << << todayISO, "USD" >> >>
        \o ChcmSnapshotLookups(IF wayback.include
                                  THEN getWaybackMonthlySnapshots(wayback.raw, 48) ELSE << >>)

RECURSIVE ChcmSnapshotLoop(_)
ChcmSnapshotLoop(snapshots) ==
    IF snapshots = << >> THEN << >>
    ELSE ChcmSnapshotPoints(Head(snapshots)) \o ChcmSnapshotLoop(Tail(snapshots))

\* buildSeries of the shop updater throws: today's rate lookup (line 340), the
\* live fetch (342) or, with --wayback, the index request (370) failed;
\* nothing catches any of them
buildSeriesChcmThrows ==
    \/ fxRate(todayISO, "USD") = 0
    \/ ~livePage.ok
    \/ (wayback.include /\ ~wayback.cdxOk)

\* buildSeries of the shop updater: ok = FALSE when it throws
buildSeriesChcm ==
    IF buildSeriesChcmThrows THEN [ok |-> FALSE, points |-> << >>, series |-> << >>]
    ELSE LET usdToCad == fxRate(todayISO, "USD")
             live == ChcmPoints(parsePriceFromHtmlChcm(livePage), todayISO, usdToCad, << >>)
             snapshots == IF wayback.include
                             THEN getWaybackMonthlySnapshots(wayback.raw, 48) ELSE << >>
             pts == live \o ChcmSnapshotLoop(snapshots)
         IN  [ok |-> TRUE, points |-> pts, series |-> SortSeries(Dedupe(pts, {}))]

ChcmPages ==
    { ChcmFetchFailed,
      ChcmPage(Null, "", Null),
      ChcmPage(225000, "USD", Null),
      ChcmPage(180000, "", 225000) }

ChcmTimestamps ==
    { Timestamp(2024, 1, 15, 8), Timestamp(2024, 2, 10, 8), Timestamp(2024, 2, 29, 8) }

ChcmCdxRows(n) ==
    { rows \in SeqsUpTo([ts : ChcmTimestamps, page : ChcmPages \ {ChcmPage(Null, "", Null)}], n) :
        Distinct([i \in 1..Len(rows) |-> rows[i].ts]) }

ChcmWaybackAnswers(n) ==
    { [include |-> FALSE, cdxOk |-> TRUE, raw |-> << >>],
      [include |-> TRUE, cdxOk |-> FALSE, raw |-> << >>] }
    \cup { [include |-> TRUE, cdxOk |-> TRUE,
            raw |-> << [ts |-> << >>, page |-> ChcmFetchFailed] >> \o rows] :
             rows \in ChcmCdxRows(n) }

InitChcm ==
    /\ pc = "start"
    /\ livePage \in ChcmPages
    /\ fxDown \in FxOutages
    /\ suppFile = << >>
    /\ wayback \in ChcmWaybackAnswers(MaxInputs)
    /\ points = << >>
    /\ fxLookups = << >>
    /\ supplementary = << >>
    /\ outFile = << >>
    /\ fpc = "idle"
    /\ prevFile = << >>
    /\ fetched = NoFetched
    /\ newPoints = << >>
    /\ call = NoCall
    /\ result = NoResult

\* main of the shop updater: buildSeries returns and the file is written
UpdateDataChcm ==
    /\ pc = "start"
    /\ LET data == buildSeriesChcm
       IN  /\ data.ok
           /\ points' = data.points
           /\ outFile' = data.series
    /\ pc' = "done"
    /\ fxLookups' = FxLookupsChcm
    /\ UNCHANGED <<livePage, wayback, fxDown, suppFile, supplementary, fetchVars, callVars>>

\* main of the shop updater: buildSeries throws, main().catch exits with 1
UpdateDataChcmFails ==
    /\ pc = "start"
    /\ buildSeriesChcmThrows
    /\ pc' = "failed"
    /\ fxLookups' = << << todayISO, "USD" >> >>
    /\ UNCHANGED <<livePage, wayback, fxDown, suppFile, points, supplementary, outFile, fetchVars, callVars>>

NextChcm == UpdateDataChcm \/ UpdateDataChcmFails

SpecChcm == InitChcm /\ [][NextChcm]_vars

\* C16 (as claimed): in historical mode, when the snapshot index cannot be
\* reached or its answer is not a list, and the live page and today's rate
\* are answered, the run completes and writes a series without any
\* snapshot-derived point that still holds the live and supplementary points
C16_IndexFailureGivesNoSnapshotPoints ==
    (/\ wayback.include
     /\ ~wayback.cdxOk
     /\ livePage.ok
     /\ todayISO \notin fxDown
     /\ pc # "start") =>
        /\ Wrote
        /\ \A i \in 1..Len(outFile) : outFile[i].wayback = << >>
        /\ \A j \in 1..Len(points) : Tuple(points[j]) \in SeriesTuples

(***************************************************************************)
(* fetch-marketplace.mjs: Grailed, eBay and archived eBay listings are     *)
(* parsed into points and merged into supplementary-points.json.          *)
(***************************************************************************)
GRAILED_SEARCH == "grailed.com/search"

EBAY_SOLD == "ebay.com/sch"

\* faulty variant of PlausibleAmounts: amounts already seen are kept again
PlausibleAmountsRepeated(matches, lo, hi, seen) ==
    LET InRange(amount) == amount >= lo /\ amount <= hi
    IN  SelectSeq(matches, InRange)

\* the loop body shared by the match loops of a parser: an amount is kept when
\* lo <= amount <= hi and it is not in seen; matches are taken in order
RECURSIVE PlausibleAmounts(_, _, _, _)
PlausibleAmounts(matches, lo, hi, seen) ==
    IF matches = << >> THEN << >>
    ELSE LET amount == Head(matches)
         IN  IF amount >= lo /\ amount <= hi /\ amount \notin seen
                THEN << amount >> \o PlausibleAmounts(Tail(matches), lo, hi, seen \cup {amount})
                ELSE PlausibleAmounts(Tail(matches), lo, hi, seen)

\* parseGrailedPrices: the three loops run one after the other over the
\* matches of the three patterns and share seen
parseGrailedPrices(html) ==
    LET amounts == PlausibleAmounts(html.priceMatches \o html.usdMatches \o html.plainDollar,
                                    80000, 350000, {})
    IN  << >> \o [ i \in 1..Len(amounts) |->
                     Entry(todayISO, amounts[i], "USD", "grailed", GRAILED_SEARCH) ]

\* parseEbayPrices(html, snapshotDate); snapshotDate = << >> stands for null
parseEbayPrices(html, snapshotDate) ==
    LET dateStr == IF snapshotDate = << >> THEN todayISO ELSE snapshotDate
        amounts == PlausibleAmounts(html.priceMatches \o html.spanPrice, 50000, 500000, {})
    IN  << >> \o [ i \in 1..Len(amounts) |->
                     Entry(dateStr, amounts[i], "USD", "ebay", EBAY_SOLD) ]

\* lines 105-111: byDate keeps the first timestamp met for each date
RECURSIVE ByDate(_, _)
ByDate(rows, dates) ==
    IF rows = << >> THEN << >>
    ELSE LET ts == Head(rows).ts
             dateISO == isoDateFromWaybackTimestamp(ts)
         IN  IF ts = << >> \/ dateISO \in dates
                THEN ByDate(Tail(rows), dates)
                ELSE << [timestamp |-> ts, dateISO |-> dateISO, page |-> Head(rows).page] >>
                     \o ByDate(Tail(rows), dates \cup {dateISO})

\* getWaybackSnapshotsForUrl, given the index's answer: data.slice(1), one
\* snapshot per date, sorted by date
getWaybackSnapshotsForUrl(cdx) ==
    LET rows == IF cdx.raw = << >> THEN << >> ELSE Tail(cdx.raw)
        entries == ByDate(rows, {})
    IN  StableSort(entries, << >> \o [ i \in 1..Len(entries) |-> entries[i].dateISO ])

\* lines 132-136: the sample of the snapshots that is fetched
SampleSnapshots(snapshots, maxSnapshots) ==
    LET n == Len(snapshots)
        span == IF maxSnapshots - 2 > 1 THEN maxSnapshots - 2 ELSE 1
        step == IF (n - 1) \div span > 1 THEN (n - 1) \div span ELSE 1
        indices == {0} \cup { i \in 0..(n - 1) : i >= step /\ i % step = 0 } \cup {n - 1}
        Sampled(i) == (i - 1) \in indices
        kept == { i \in 1..n : Sampled(i) }
        filtered == << >> \o [ k \in 1..Cardinality(kept) |->
                        snapshots[CHOOSE i \in kept :
                                     Cardinality({ j \in kept : j <= i }) = k] ]
    IN  SubSeq(filtered, 1, IF Len(filtered) < maxSnapshots THEN Len(filtered) ELSE maxSnapshots)

\* lines 139-154: the points of the sampled snapshots, a snapshot whose fetch
\* fails being skipped
RECURSIVE SampledPoints(_)
SampledPoints(sampled) ==
    IF sampled = << >> THEN << >>
    ELSE LET snap == Head(sampled)
         IN  (IF snap.page.ok THEN parseEbayPrices(snap.page, snap.dateISO) ELSE << >>)
             \o SampledPoints(Tail(sampled))

\* fetchEbayFromWayback: the index is asked for EBAY_SOLD, then for the
\* wildcard url, until one answers with snapshots
fetchEbayFromWayback(archive, maxSnapshots) ==
    LET sold == IF archive.sold.ok THEN getWaybackSnapshotsForUrl(archive.sold) ELSE << >>
        any  == IF archive.any.ok THEN getWaybackSnapshotsForUrl(archive.any) ELSE << >>
        snapshots == IF Len(sold) > 0 THEN sold ELSE any
    IN  IF Len(snapshots) = 0 THEN << >>
        ELSE SampledPoints(SampleSnapshots(snapshots, maxSnapshots))

\* seenKey: `${pt.date}|${pt.sourceId}|${pt.price?.amount}`
seenKey(pt) == << pt.date, pt.sourceId, pt.amount >>

\* faulty variant of AddNew: every point found is pushed, known key or not
AddNewUnchecked(found, newPts, existingKeys) ==
    [ newPoints |-> newPts \o found,
      existingKeys |-> existingKeys \cup { seenKey(found[i]) : i \in 1..Len(found) } ]

\* for (const pt of found) if (!existingKeys.has(seenKey(pt))) { push; add }
RECURSIVE AddNew(_, _, _)
AddNew(found, newPts, existingKeys) ==
    IF found = << >> THEN [newPoints |-> newPts, existingKeys |-> existingKeys]
    ELSE LET pt == Head(found)
         IN  IF seenKey(pt) \in existingKeys
                THEN AddNew(Tail(found), newPts, existingKeys)
                ELSE AddNew(Tail(found), Append(newPts, pt), existingKeys \cup {seenKey(pt)})

\* line 218
hasNewEbay(newPts) == \E i \in 1..Len(newPts) : newPts[i].sourceId = "ebay"

\* faulty variant of RefreshStore: stored ebay points are never discarded
RefreshStoreKeepsAll(supp, newPts) == supp

\* faulty variant of RefreshStore: the whole store is discarded on a refresh
RefreshStoreDropsAll(supp, newPts) == IF hasNewEbay(newPts) THEN << >> ELSE supp

\* lines 219-221
RefreshStore(supp, newPts) ==
    LET NotEbay(p) == p.sourceId # "ebay"
    IN  IF hasNewEbay(newPts) THEN SelectSeq(supp, NotEbay) ELSE supp

\* lines 224-225
MergeStore(supp, newPts) ==
    LET merged == supp \o newPts
    IN  StableSort(merged, << >> \o [ i \in 1..Len(merged) |-> DateAmountKey(merged[i]) ])

\* main of fetch-marketplace.mjs from the stored file and the answers of the
\* three fetches; wrote tells whether the file is written
main(supp, grailedHtml, ebayHtml, archive) ==
    LET existingKeys == { seenKey(supp[i]) : i \in 1..Len(supp) }
        grailed == IF grailedHtml.ok THEN parseGrailedPrices(grailedHtml) ELSE << >>
        afterGrailed == AddNew(grailed, << >>, existingKeys)
        ebay == IF ebayHtml.ok THEN parseEbayPrices(ebayHtml, << >>) ELSE << >>
        afterEbay == AddNew(ebay, afterGrailed.newPoints, afterGrailed.existingKeys)
        waybackEbay == fetchEbayFromWayback(archive, 15)
        afterWayback == AddNew(waybackEbay, afterEbay.newPoints, afterEbay.existingKeys)
        newPts == afterWayback.newPoints
        wrote == Len(newPts) > 0 \/ hasNewEbay(newPts)
    IN  [ fetched |-> [grailed |-> grailed, ebay |-> ebay, waybackEbay |-> waybackEbay],
          newPoints |-> newPts,
          wrote |-> wrote,
          file |-> IF wrote THEN MergeStore(RefreshStore(supp, newPts), newPts) ELSE supp ]

(***************************************************************************)
(* The inputs of a fetch-marketplace run.                                  *)
(***************************************************************************)
GrailedPage(priceMatches, usdMatches, plainDollar) ==
    [ok |-> TRUE, priceMatches |-> priceMatches, usdMatches |-> usdMatches,
     plainDollar |-> plainDollar]

GrailedFailed == [ok |-> FALSE, priceMatches |-> << >>, usdMatches |-> << >>, plainDollar |-> << >>]

GrailedPages ==
    { GrailedFailed,
      GrailedPage(<< >>, << >>, << >>),
      GrailedPage(<< 100000, 60000 >>, << >>, << 100000 >>),
      GrailedPage(<< 120000 >>, << 100000 >>, << 400000, 120000 >>) }

EbayPage(priceMatches, spanPrice) ==
    [ok |-> TRUE, priceMatches |-> priceMatches, spanPrice |-> spanPrice]

EbayFailed == [ok |-> FALSE, priceMatches |-> << >>, spanPrice |-> << >>]

EbayPages ==
    { EbayFailed,
      EbayPage(<< >>, << >>),
      EbayPage(<< 100000, 600000 >>, << 100000 >>),
      EbayPage(<< 120000, 5000 >>, << 100000 >>) }

CdxFailed == [ok |-> FALSE, raw |-> << >>]

\* the index's answer: a header row, then one row per capture, with the page
\* the archive serves for it
Cdx(rows) == [ok |-> TRUE, raw |-> << [ts |-> << >>, page |-> EbayFailed] >> \o rows]

EbayArchives ==
    { [sold |-> CdxFailed, any |-> CdxFailed],
      [sold |-> CdxFailed, any |-> Cdx(<< >>)],
      [sold |-> Cdx(<< [ts |-> Timestamp(2024, 2, 29, 20), page |-> EbayPage(<< 100000 >>, << >>)],
                       [ts |-> Timestamp(2024, 3, 1, 8), page |-> EbayPage(<< 120000 >>, << 100000 >>)],
                       [ts |-> Timestamp(2024, 2, 29, 8), page |-> EbayPage(<< 120000 >>, << >>)] >>),
       any |-> CdxFailed],
      [sold |-> Cdx(<< >>),
       any |-> Cdx(<< [ts |-> Timestamp(2024, 3, 1, 8), page |-> EbayFailed],
                      [ts |-> Timestamp(2024, 2, 29, 8), page |-> EbayPage(<< 100000 >>, << >>)] >>)] }

\* points a store may hold before a run
StoreEntries ==
    { Entry(d, a, "USD", "ebay", EBAY_SOLD) : d \in {yesterdayISO, todayISO}, a \in {100000, 120000} }
    \cup
    { Entry(d, a, "USD", "grailed", GRAILED_SEARCH) : d \in {yesterdayISO, todayISO}, a \in {100000, 120000} }

InitFetch ==
    /\ pc = "idle"
    /\ livePage = FetchFailed
    /\ wayback = [include |-> FALSE, cdxOk |-> TRUE, raw |-> << CdxHeader >>]
    /\ fxDown = {}
    /\ suppFile \in SeqsUpTo(StoreEntries, MaxStore)
    /\ points = << >>
    /\ fxLookups = << >>
    /\ supplementary = << >>
    /\ outFile = << >>
    /\ fpc = "idle"
    /\ prevFile = << >>
    /\ fetched = NoFetched
    /\ newPoints = << >>
    /\ call = NoCall
    /\ result = NoResult

\* main of fetch-marketplace.mjs: there is something to write
FetchMarketplace ==
    /\ fpc = "idle"
    /\ \E grailedHtml \in GrailedPages, ebayHtml \in EbayPages, archive \in EbayArchives :
         LET run == main(suppFile, grailedHtml, ebayHtml, archive)
         IN  /\ run.wrote
             /\ prevFile' = suppFile
             /\ fetched' = run.fetched
             /\ newPoints' = run.newPoints
             /\ suppFile' = run.file
    /\ fpc' = "done"
    /\ UNCHANGED <<pc, livePage, wayback, fxDown, points, supplementary, outFile, fxLookups, callVars>>

\* main of fetch-marketplace.mjs: no new point, the file is left alone
FetchMarketplaceNothingNew ==
    /\ fpc = "idle"
    /\ \E grailedHtml \in GrailedPages, ebayHtml \in EbayPages, archive \in EbayArchives :
         LET run == main(suppFile, grailedHtml, ebayHtml, archive)
         IN  /\ ~run.wrote
             /\ prevFile' = suppFile
             /\ fetched' = run.fetched
             /\ newPoints' = run.newPoints
    /\ fpc' = "done"
    /\ UNCHANGED <<pc, livePage, wayback, fxDown, suppFile, points, supplementary, outFile, fxLookups, callVars>>

NextFetch == FetchMarketplace \/ FetchMarketplaceNothingNew

SpecFetch == InitFetch /\ [][NextFetch]_vars


(***************************************************************************)
(* Properties of fetch-marketplace.mjs (specification SpecFetch).          *)
(***************************************************************************)
FetchDone == fpc = "done"

PointsOf(seq, sourceId) == { seq[i] : i \in { j \in 1..Len(seq) : seq[j].sourceId = sourceId } }

CountIn(seq, pt) == Cardinality({ i \in 1..Len(seq) : seq[i] = pt })

\* F: the ebay points the live and the archived eBay fetches of the run yield
EbayFetched == PointsOf(fetched.ebay, "ebay") \cup PointsOf(fetched.waybackEbay, "ebay")

\* C8: after a run whose eBay fetches yield a non-empty set F of ebay points,
\* the ebay points of the store are exactly F, whatever the store held before
C8_EbayExactlyFetched ==
    (FetchDone /\ EbayFetched # {}) => PointsOf(suppFile, "ebay") = EbayFetched

C10_OtherSourcesUntouched ==
    (FetchDone /\ hasNewEbay(newPoints)) =>
        \A i \in 1..Len(prevFile) :
            prevFile[i].sourceId # "ebay" =>
                CountIn(suppFile, prevFile[i]) >= CountIn(prevFile, prevFile[i])

\* a refresh of ebay discarded a stored ebay point and moved a stored grailed
\* point to another position of the file
C10_Witness ==
    /\ FetchDone
    /\ hasNewEbay(newPoints)
    /\ PointsOf(prevFile, "ebay") # {}
    /\ \E i \in 1..Len(prevFile) :
           /\ prevFile[i].sourceId = "grailed"
           /\ prevFile[i] \in PointsOf(suppFile, "grailed")
           /\ suppFile[i] # prevFile[i]


(***************************************************************************)
(* fetch-marketplace run again and again on the same store (specification  *)
(* SpecRefetch): every run reads the file the run before left, and gets    *)
(* its own answers from Grailed, eBay and the archive. Both versions of    *)
(* the script write the same file: the one of src/unnamed/part_002 and the *)
(* one of src/scripts/fetch-marketplace.mjs, which has no archive fetch    *)
(* and never discards stored points.                                       *)
(***************************************************************************)
\* main of src/scripts/fetch-marketplace.mjs
mainMjs(supp, grailedHtml, ebayHtml) ==
    LET existingKeys == { seenKey(supp[i]) : i \in 1..Len(supp) }
        grailed == IF grailedHtml.ok THEN parseGrailedPrices(grailedHtml) ELSE << >>
        afterGrailed == AddNew(grailed, << >>, existingKeys)
        ebay == IF ebayHtml.ok THEN parseEbayPrices(ebayHtml, << >>) ELSE << >>
        afterEbay == AddNew(ebay, afterGrailed.newPoints, afterGrailed.existingKeys)
        newPts == afterEbay.newPoints
        wrote == Len(newPts) > 0
    IN  [ fetched |-> [grailed |-> grailed, ebay |-> ebay, waybackEbay |-> << >>],
          newPoints |-> newPts,
          wrote |-> wrote,
          file |-> IF wrote THEN MergeStore(supp, newPts) ELSE supp ]

\* no two entries share (date, sourceId, price.amount)
UniqueKeys(supp) ==
    \A i, j \in 1..Len(supp) : i # j => seenKey(supp[i]) # seenKey(supp[j])

InitRefetch ==
    /\ pc = "idle"
    /\ livePage = FetchFailed
    /\ wayback = [include |-> FALSE, cdxOk |-> TRUE, raw |-> << CdxHeader >>]
    /\ fxDown = {}
    /\ suppFile \in { supp \in SeqsUpTo(StoreEntries, MaxStore) : UniqueKeys(supp) }
    /\ points = << >>
    /\ fxLookups = << >>
    /\ supplementary = << >>
    /\ outFile = << >>
    /\ fpc = "idle"
    /\ prevFile = << >>
    /\ fetched = NoFetched
    /\ newPoints = << >>
    /\ call = NoCall
    /\ result = NoResult

\* a run of part_002's main, first or later
Refetch ==
    /\ \E grailedHtml \in GrailedPages, ebayHtml \in EbayPages, archive \in EbayArchives :
         LET run == main(suppFile, grailedHtml, ebayHtml, archive)
         IN  /\ fetched' = run.fetched
             /\ suppFile' = run.file
    /\ fpc' = "done"
    /\ UNCHANGED <<updateVars, prevFile, newPoints, callVars>>

\* a run of the main of scripts/fetch-marketplace.mjs, first or later
RefetchMjs ==
    /\ \E grailedHtml \in GrailedPages, ebayHtml \in EbayPages :
         LET run == mainMjs(suppFile, grailedHtml, ebayHtml)
         IN  /\ fetched' = run.fetched
             /\ suppFile' = run.file
    /\ fpc' = "doneMjs"
    /\ UNCHANGED <<updateVars, prevFile, newPoints, callVars>>

NextRefetch == Refetch \/ RefetchMjs

SpecRefetch == InitRefetch /\ [][NextRefetch]_vars

\* C25 (as claimed): a run of part_002's main that follows a run of it and
\* fetches the same points leaves the store as that run left it
C25_SecondRunIsFixedPoint ==
    [][ (fpc = "done" /\ fpc' = "done" /\ fetched' = fetched) => suppFile' = suppFile ]_vars

\* C26: from a store without two entries of the same (date, sourceId,
\* price.amount), no sequence of runs of either version of the script, whatever
\* the fetches answer, leads to a store with two such entries
C26_StoreKeysStayUnique == UniqueKeys(suppFile)

\* runs have added grailed and ebay points to a store that had some, and the
\* store holds several points of one date and source
C26_Witness ==
    /\ fpc = "done"
    /\ Len(suppFile) >= 4
    /\ PointsOf(suppFile, "grailed") # {}
    /\ \E i, j \in 1..Len(suppFile) :
           /\ i # j
           /\ suppFile[i].sourceId = "ebay" /\ suppFile[j].sourceId = "ebay"
           /\ suppFile[i].date = suppFile[j].date
    /\ PointsOf(fetched.ebay, "ebay") \cup PointsOf(fetched.waybackEbay, "ebay") # {}
    /\ PointsOf(fetched.ebay, "ebay") \cup PointsOf(fetched.waybackEbay, "ebay")
           \subseteq PointsOf(suppFile, "ebay")


(***************************************************************************)
(* Functions of the scripts applied on their own (specification SpecCalls):*)
(* the initial state holds the call, one step applies the function.        *)
(***************************************************************************)
\* a sorted snapshot list of n dates, as getWaybackSnapshotsForUrl returns it
SnapshotList(n) ==
    << >> \o [ i \in 1..n |-> [ timestamp |-> Timestamp(2024, 1, i, 8),
                                dateISO |-> Iso(2024, 1, i),
                                page |-> EbayFailed ] ]

SampleCalls ==
    { [fn |-> "SampleSnapshots", snapshots |-> SnapshotList(n), maxSnapshots |-> cap] :
        n \in 1..MaxSnapshots, cap \in 2..MaxCap }

\* fetchEbayFromWayback lines 132-136 on a snapshot list
ApplySampleSnapshots ==
    /\ call.fn = "SampleSnapshots"
    /\ ~result.done
    /\ result' = [done |-> TRUE, value |-> SampleSnapshots(call.snapshots, call.maxSnapshots)]
    /\ UNCHANGED <<updateVars, suppFile, fetchVars, call>>

\* the timestamp column of an index answer: captures of two days, two of each
\* day, and a row without a timestamp
CaptureTimestamps ==
    { Timestamp(2024, 2, 29, 8), Timestamp(2024, 2, 29, 20),
      Timestamp(2024, 3, 1, 8), Timestamp(2024, 3, 1, 20), << >> }

CaptureRows == { rows \in SeqsUpTo(CaptureTimestamps, MaxRows) : Distinct(rows) }

LocatorCalls ==
    { [fn |-> "getWaybackSnapshotsForUrl",
       cdx |-> Cdx(<< >> \o [ i \in 1..Len(rows) |-> [ts |-> rows[i], page |-> EbayFailed] ])] :
        rows \in CaptureRows }
    \cup
    { [fn |-> "getWaybackAllSnapshots",
       cdx |-> [ok |-> TRUE,
                raw |-> << CdxHeader >> \o
                        [ i \in 1..Len(rows) |-> [ts |-> rows[i], page |-> FetchFailed] ]]] :
        rows \in CaptureRows }

\* getWaybackSnapshotsForUrl on an index answer
ApplyGetWaybackSnapshotsForUrl ==
    /\ call.fn = "getWaybackSnapshotsForUrl"
    /\ ~result.done
    /\ result' = [done |-> TRUE, value |-> getWaybackSnapshotsForUrl(call.cdx)]
    /\ UNCHANGED <<updateVars, suppFile, fetchVars, call>>

\* getWaybackAllSnapshots on an index answer
ApplyGetWaybackAllSnapshots ==
    /\ call.fn = "getWaybackAllSnapshots"
    /\ ~result.done
    /\ result' = [done |-> TRUE, value |-> getWaybackAllSnapshots(call.cdx.raw)]
    /\ UNCHANGED <<updateVars, suppFile, fetchVars, call>>

\* the matches of a page in the order of the text: <<pattern, amount>>, the
\* amounts around the limits of the two plausibility ranges
MatchesOf(ms, pattern) ==
    LET Is(m) == m[1] = pattern
        own == SelectSeq(ms, Is)
    IN  << >> \o [ i \in 1..Len(own) |-> own[i][2] ]

GrailedCalls ==
    { [fn |-> "parseGrailedPrices",
       html |-> GrailedPage(MatchesOf(ms, "price"), MatchesOf(ms, "usd"), MatchesOf(ms, "plain"))] :
        ms \in SeqsUpTo({"price", "usd", "plain"} \X {79000, 80000, 350000, 351000}, MaxMatches) }

EbayCalls ==
    { [fn |-> "parseEbayPrices",
       html |-> EbayPage(MatchesOf(ms, "price"), MatchesOf(ms, "span")),
       snapshotDate |-> d] :
        ms \in SeqsUpTo({"price", "span"} \X {49000, 50000, 500000, 501000}, MaxMatches),
        d \in {<< >>, yesterdayISO} }

\* parseGrailedPrices on a page
ApplyParseGrailedPrices ==
    /\ call.fn = "parseGrailedPrices"
    /\ ~result.done
    /\ result' = [done |-> TRUE, value |-> parseGrailedPrices(call.html)]
    /\ UNCHANGED <<updateVars, suppFile, fetchVars, call>>

\* parseEbayPrices on a page
ApplyParseEbayPrices ==
    /\ call.fn = "parseEbayPrices"
    /\ ~result.done
    /\ result' = [done |-> TRUE, value |-> parseEbayPrices(call.html, call.snapshotDate)]
    /\ UNCHANGED <<updateVars, suppFile, fetchVars, call>>

InitCalls ==
    /\ pc = "idle"
    /\ livePage = FetchFailed
    /\ wayback = [include |-> FALSE, cdxOk |-> TRUE, raw |-> << CdxHeader >>]
    /\ fxDown = {}
    /\ suppFile = << >>
    /\ points = << >>
    /\ fxLookups = << >>
    /\ supplementary = << >>
    /\ outFile = << >>
    /\ fpc = "idle"
    /\ prevFile = << >>
    /\ fetched = NoFetched
    /\ newPoints = << >>
    /\ \/ call \in SampleCalls
       \/ call \in LocatorCalls
       \/ call \in GrailedCalls
       \/ call \in EbayCalls
    /\ result = NoResult

NextCalls ==
    \/ ApplySampleSnapshots
    \/ ApplyGetWaybackSnapshotsForUrl
    \/ ApplyGetWaybackAllSnapshots
    \/ ApplyParseGrailedPrices
    \/ ApplyParseEbayPrices

SpecCalls == InitCalls /\ [][NextCalls]_vars

(***************************************************************************)
(* Properties of the functions applied on their own (SpecCalls).           *)
(***************************************************************************)
Returned(fn) == result.done /\ call.fn = fn

RangeOf(seq) == { seq[i] : i \in 1..Len(seq) }

\* C11: for every non-empty sorted snapshot list and every cap >= 2, the
\* sample of fetchEbayFromWayback holds the earliest and the latest snapshot
C11_SampleHasFirstAndLast ==
    Returned("SampleSnapshots") =>
        /\ call.snapshots[1] \in RangeOf(result.value)
        /\ call.snapshots[Len(call.snapshots)] \in RangeOf(result.value)

\* seq is a run of consecutive entries of list
IsContiguousRun(seq, list) ==
    \E k \in 1..Len(list) :
        /\ k + Len(seq) - 1 <= Len(list)
        /\ seq = SubSeq(list, k, k + Len(seq) - 1)

\* C12: whenever the snapshot list is longer than the cap, the sample is not
\* a contiguous run of the list (not its first cap entries, not its last)
C12_SampleNotContiguous ==
    (Returned("SampleSnapshots") /\ Len(call.snapshots) > call.maxSnapshots) =>
        ~IsContiguousRun(result.value, call.snapshots)

\* the timestamps of dateISO in rows, in the order of the index answer
CapturesOf(rows, dateISO) ==
    LET OfDate(r) == r.ts # << >> /\ isoDateFromWaybackTimestamp(r.ts) = dateISO
        own == SelectSeq(rows, OfDate)
    IN  << >> \o [ i \in 1..Len(own) |-> own[i].ts ]

\* the timestamps a locator returned
LocatedTimestamps ==
    IF call.fn = "getWaybackSnapshotsForUrl"
       THEN << >> \o [ i \in 1..Len(result.value) |-> result.value[i].timestamp ]
       ELSE result.value

\* C13: the list a locator returns (getWaybackSnapshotsForUrl and
\* getWaybackAllSnapshots) holds one timestamp for every date that has a
\* capture in the index answer and no more, that timestamp is the first
\* capture of its date in the answer, and the list is ordered oldest first
C13_OnePerDateOldestFirst ==
    (Returned("getWaybackSnapshotsForUrl") \/ Returned("getWaybackAllSnapshots")) =>
        LET rows == Tail(call.cdx.raw)
            located == LocatedTimestamps
        IN  /\ \A i, j \in 1..Len(located) :
                   i < j => StrLess(isoDateFromWaybackTimestamp(located[i]),
                                    isoDateFromWaybackTimestamp(located[j]))
            /\ \A i \in 1..Len(located) :
                   located[i] = CapturesOf(rows, isoDateFromWaybackTimestamp(located[i]))[1]
            /\ \A k \in 1..Len(rows) :
                   rows[k].ts # << >> =>
                       \E i \in 1..Len(located) :
                           isoDateFromWaybackTimestamp(located[i])
                               = isoDateFromWaybackTimestamp(rows[k].ts)

\* C19: every point a marketplace parser returns has an amount inside the
\* range of its source, [80, 350] for parseGrailedPrices and [50, 500] for
\* parseEbayPrices, whichever pattern matched it, and no two points of one
\* parse have the same amount
C19_PlausibleDistinctAmounts ==
    /\ Returned("parseGrailedPrices") =>
           \A i \in 1..Len(result.value) :
               /\ result.value[i].amount >= 80000
               /\ result.value[i].amount <= 350000
               /\ \A j \in 1..Len(result.value) :
                      result.value[j].amount = result.value[i].amount => j = i
    /\ Returned("parseEbayPrices") =>
           \A i \in 1..Len(result.value) :
               /\ result.value[i].amount >= 50000
               /\ result.value[i].amount <= 500000
               /\ \A j \in 1..Len(result.value) :
                      result.value[j].amount = result.value[i].amount => j = i

\* a Grailed page whose third pattern matches an amount outside the range and
\* an amount the first pattern matched too: one point for the pair, none for
\* the amount outside
C19_Witness ==
    /\ Returned("parseGrailedPrices")
    /\ call.html.priceMatches = << 80000 >>
    /\ call.html.plainDollar = << 351000, 80000 >>
    /\ Len(result.value) = 1
    /\ result.value[1].amount = 80000

====
